---- MODULE Spec2Model ----
(***************************************************************************)
(* Model of the ulauncher "z search" extension (src/main.py).              *)
(*                                                                         *)
(* Text is modelled character by character: a string is a sequence of      *)
(* one-character strings, so split, rsplit, rstrip, float(), int(), the    *)
(* f-string formatting and the regular-expression search are computed as   *)
(* the code computes them.  A file is a sequence of lines, each line       *)
(* carrying its own terminator as readlines() and fileinput return it.     *)
(*                                                                         *)
(* Numbers are fixed-point.  A float rank or time is held in units of      *)
(* 1/Scale; a frecency is held in units of 1/(4*Scale), which makes the    *)
(* multipliers 0.5 and 0.25 exact.  Every decimal text of the model has at *)
(* most two fractional digits, for which the fixed-point value is exact.   *)
(***************************************************************************)
EXTENDS Integers, Sequences, FiniteSets, TLC

VARIABLES
    z_file,             \* extension.z_file: name of the backing store
    max_results,        \* extension.max_results
    update_z_file,      \* extension.update_z_file (the preference flag)
    command_on_select,  \* extension.command_on_select
    z_lines,            \* content of the backing store on disk, line by line
    fi,                 \* fileinput's module state and the running rewrite
    rendered,           \* the result list the launcher currently shows
    now,                \* the wall clock, time.time(), in units of 1/Scale
    rank_ups,           \* how many rank increments were made (bounds the model)
    last                \* what the latest handler did (observation only)

vars == <<z_file, max_results, update_z_file, command_on_select,
          z_lines, fi, rendered, now, rank_ups, last>>

-----------------------------------------------------------------------------
(* Bounds of the model. *)

MaxLines == 2
MaxSearchLines == 3
MaxTicks == 1
MaxRankUps == 3

(* Fixed-point resolution: hundredths. *)
Scale == 10 * 10

-----------------------------------------------------------------------------
(* Characters and strings. *)

NL == "\n"
SEP == "|"

Digits == <<"0", "1", "2", "3", "4", "5", "6", "7", "8", "9">>

DigitSet == {"0", "1", "2", "3", "4", "5", "6", "7", "8", "9"}

IsDigit(c) == c \in DigitSet

DigitVal(c) ==
    CASE c = "0" -> 0 [] c = "1" -> 1 [] c = "2" -> 2 [] c = "3" -> 3
      [] c = "4" -> 4 [] c = "5" -> 5 [] c = "6" -> 6 [] c = "7" -> 7
      [] c = "8" -> 8 [] c = "9" -> 9

\* str.lower() on the characters the model uses
Lower(c) == IF c = "P" THEN "p" ELSE IF c = "A" THEN "a" ELSE c

LowerStr(s) == [i \in 1..Len(s) |-> Lower(s[i])]

\* the sequence s from position i on
Drop(s, i) == SubSeq(s, i, Len(s))

\* position of the first sep in s, 0 if there is none
RECURSIVE FirstSep(_, _, _)
FirstSep(s, sep, i) ==
    IF i > Len(s) THEN 0
    ELSE IF s[i] = sep THEN i
    ELSE FirstSep(s, sep, i + 1)

\* position of the last sep in s at or before i, 0 if there is none
RECURSIVE LastSep(_, _, _)
LastSep(s, sep, i) ==
    IF i < 1 THEN 0
    ELSE IF s[i] = sep THEN i
    ELSE LastSep(s, sep, i - 1)

\* str.split(sep): every separator splits, n separators give n+1 fields
RECURSIVE Split(_, _)
Split(s, sep) ==
    LET p == FirstSep(s, sep, 1)
    IN  IF p = 0 THEN <<s>>
        ELSE <<SubSeq(s, 1, p - 1)>> \o Split(Drop(s, p + 1), sep)

\* str.rsplit(sep, maxsplit): at most maxsplit splits, taken from the right
RECURSIVE RSplit(_, _, _)
RSplit(s, sep, maxsplit) ==
    LET p == LastSep(s, sep, Len(s))
    IN  IF maxsplit = 0 \/ p = 0 THEN <<s>>
        ELSE RSplit(SubSeq(s, 1, p - 1), sep, maxsplit - 1)
                 \o <<Drop(s, p + 1)>>

\* str.rstrip("\n"): every trailing newline goes
RECURSIVE RStripNL(_)
RStripNL(s) ==
    IF Len(s) > 0 /\ s[Len(s)] = NL THEN RStripNL(SubSeq(s, 1, Len(s) - 1))
    ELSE s

\* str.strip() as float() and int() apply it; newline is the only
\* whitespace character of the model
RECURSIVE LStripWS(_)
LStripWS(s) ==
    IF Len(s) > 0 /\ s[1] = NL THEN LStripWS(Drop(s, 2)) ELSE s

StripWS(s) == LStripWS(RStripNL(s))

AllDigits(s) == \A i \in 1..Len(s) : IsDigit(s[i])

\* value of the first n digits of a digit string
RECURSIVE DecValTo(_, _)
DecValTo(s, n) ==
    IF n = 0 THEN 0 ELSE 10 * DecValTo(s, n - 1) + DigitVal(s[n])

\* value of a digit string, most significant digit first
DecVal(s) == DecValTo(s, Len(s))

\* decimal digits of n >= 0
RECURSIVE DecStr(_)
DecStr(n) ==
    IF n < 10 THEN <<Digits[n + 1]>>
    ELSE DecStr(n \div 10) \o <<Digits[(n % 10) + 1]>>

\* format of an int, as f"{int(x)}" writes it
FormatInt(n) == IF n < 0 THEN <<"-">> \o DecStr(-n) ELSE DecStr(n)

\* the fractional digits as a value in 1/Scale: ".5" is 50, ".25" is 25
FracVal(s) ==
    IF Len(s) = 0 THEN 0
    ELSE IF Len(s) = 1 THEN DigitVal(s[1]) * (Scale \div 10)
    ELSE DecVal(SubSeq(s, 1, 2)) * (Scale \div 100)

\* an unsigned decimal: digits, digits., digits.digits or .digits
UnsignedOK(s) ==
    LET p == FirstSep(s, ".", 1)
        ip == IF p = 0 THEN s ELSE SubSeq(s, 1, p - 1)
        fp == IF p = 0 THEN <<>> ELSE Drop(s, p + 1)
    IN  /\ AllDigits(ip)
        /\ AllDigits(fp)
        /\ Len(ip) + Len(fp) > 0

UnsignedVal(s) ==
    LET p == FirstSep(s, ".", 1)
        ip == IF p = 0 THEN s ELSE SubSeq(s, 1, p - 1)
        fp == IF p = 0 THEN <<>> ELSE Drop(s, p + 1)
    IN  DecVal(ip) * Scale + FracVal(fp)

\* float(text): [ok, val]; ok = FALSE stands for the ValueError
ParseFloat(text) ==
    LET s == StripWS(text)
        signed == Len(s) > 0 /\ s[1] \in {"+", "-"}
        body == IF signed THEN Drop(s, 2) ELSE s
    IN  IF UnsignedOK(body)
        THEN [ok |-> TRUE,
              val |-> IF signed /\ s[1] = "-" THEN -UnsignedVal(body)
                      ELSE UnsignedVal(body)]
        ELSE [ok |-> FALSE, val |-> 0]

\* int(text) of a preference value: [ok, val]
ParseInt(text) ==
    LET s == StripWS(text)
        signed == Len(s) > 0 /\ s[1] \in {"+", "-"}
        body == IF signed THEN Drop(s, 2) ELSE s
    IN  IF Len(body) > 0 /\ AllDigits(body)
        THEN [ok |-> TRUE,
              val |-> IF signed /\ s[1] = "-" THEN -DecVal(body)
                      ELSE DecVal(body)]
        ELSE [ok |-> FALSE, val |-> 0]

\* int(x) of a float: truncation toward zero, result in whole seconds
IntOf(x) == IF x >= 0 THEN x \div Scale ELSE -((-x) \div Scale)

\* the shortest fractional digits of c/Scale, at least one digit
FracStr(c) ==
    IF c % 10 = 0 THEN <<Digits[(c \div 10) + 1]>>
    ELSE <<Digits[(c \div 10) + 1], Digits[(c % 10) + 1]>>

\* format of a float, as f"{x}" writes it: 11.0, 3.5, 0.25
FormatFloat(x) ==
    LET a == IF x < 0 THEN -x ELSE x
    IN  (IF x < 0 THEN <<"-">> ELSE <<>>)
            \o DecStr(a \div Scale) \o <<".">> \o FracStr(a % Scale)

-----------------------------------------------------------------------------
(* frecency, src/main.py 38-51.  The clock reading is a parameter: the     *)
(* code reads time.time() inside the call.                                 *)

Hour == 3600
Day == 86400
Week == 604800

\* the buckets with <= in place of <: the boundaries fall in the newer bucket
Multiplier4Inclusive(delta_t) ==
    IF delta_t <= Hour * Scale THEN 16
    ELSE IF delta_t <= Day * Scale THEN 8
    ELSE IF delta_t <= Week * Scale THEN 2
    ELSE 1

\* the multiplier, in quarters: 4, 2, 0.5, 0.25
Multiplier4(delta_t) ==
    IF delta_t < Hour * Scale THEN 16
    ELSE IF delta_t < Day * Scale THEN 8
    ELSE IF delta_t < Week * Scale THEN 2
    ELSE 1

\* rank * multiplier, in units of 1/(4*Scale)
frecency(rank, last_time, clock) == rank * Multiplier4(clock - last_time)

-----------------------------------------------------------------------------
(* The regular expression of a query, src/main.py 97-100.  The queries of  *)
(* the model are made of literal characters and of ".", which matches any  *)
(* character but a newline.                                                *)

CharMatches(p, c) ==
    IF p = "." THEN c # NL ELSE Lower(p) = Lower(c)

MatchesAt(pattern, line, off) ==
    /\ off + Len(pattern) <= Len(line)
    /\ \A k \in 1..Len(pattern) : CharMatches(pattern[k], line[off + k])

\* re.compile(query.lower(), re.IGNORECASE).search(line)
PatternSearch(query, line) ==
    LET pattern == LowerStr(query)
    IN  \E off \in 0..Len(line) : MatchesAt(pattern, line, off)

-----------------------------------------------------------------------------
(* ZSearchExtension.search, src/main.py 88-114. *)

\* path, rank, last_time = line.rstrip("\n").split("|"), then float() twice
ParseLine(line) ==
    LET f == Split(RStripNL(line), SEP)
    IN  IF Len(f) # 3 THEN [ok |-> FALSE, path |-> <<>>, rank |-> 0, time |-> 0]
        ELSE LET r == ParseFloat(f[2])
                 t == ParseFloat(f[3])
             IN  IF r.ok /\ t.ok
                 THEN [ok |-> TRUE, path |-> f[1], rank |-> r.val, time |-> t.val]
                 ELSE [ok |-> FALSE, path |-> <<>>, rank |-> 0, time |-> 0]

\* the dict appended for a parsed line; "at" is the clock reading the
\* frecency was computed with (observation only)
ResultOf(p, clock) ==
    [path |-> p.path, rank |-> p.rank, time |-> p.time,
     frecency |-> frecency(p.rank, p.time, clock), at |-> clock]

\* the loop over the lines: the first matching line that does not parse
\* raises and ends the scan.  clockAt[i] is the reading for line i.
\* results holds what was appended so far.
RECURSIVE Scan(_, _, _, _, _)
Scan(lines, i, query, clockAt, results) ==
    IF i > Len(lines) THEN [raised |-> FALSE, results |-> results]
    ELSE IF ~PatternSearch(query, lines[i])
         THEN Scan(lines, i + 1, query, clockAt, results)
    ELSE LET p == ParseLine(lines[i])
         IN  IF ~p.ok THEN [raised |-> TRUE, results |-> <<>>]
             ELSE Scan(lines, i + 1, query, clockAt,
                       Append(results, ResultOf(p, clockAt[i])))

\* where x goes in a sequence already sorted by frecency, descending:
\* behind every element that is not smaller (the sort is stable)
RECURSIVE InsertDesc(_, _)
InsertDesc(x, s) ==
    IF Len(s) = 0 THEN <<x>>
    ELSE IF Head(s).frecency >= x.frecency
         THEN <<Head(s)>> \o InsertDesc(x, Tail(s))
    ELSE <<x>> \o s

\* sorted(results, key=frecency, reverse=True)
RECURSIVE SortedDesc(_)
SortedDesc(s) ==
    IF Len(s) = 0 THEN <<>>
    ELSE InsertDesc(s[Len(s)], SortedDesc(SubSeq(s, 1, Len(s) - 1)))

\* the sort without reverse=True: ascending
RECURSIVE InsertAsc(_, _)
InsertAsc(x, s) ==
    IF Len(s) = 0 THEN <<x>>
    ELSE IF Head(s).frecency <= x.frecency
         THEN <<Head(s)>> \o InsertAsc(x, Tail(s))
    ELSE <<x>> \o s

RECURSIVE SortedAsc(_)
SortedAsc(s) ==
    IF Len(s) = 0 THEN <<>>
    ELSE InsertAsc(s[Len(s)], SortedAsc(SubSeq(s, 1, Len(s) - 1)))

SortResultsAscending(results) == SortedAsc(results)

\* sorted_results, src/main.py 113
SortResults(results) == SortedDesc(results)

\* s[:n], the slice of Python
SliceTo(s, n) ==
    LET stop == IF n < 0 THEN (IF Len(s) + n < 0 THEN 0 ELSE Len(s) + n)
                ELSE IF n > Len(s) THEN Len(s) ELSE n
    IN  SubSeq(s, 1, stop)

\* search(query) on the lines read: [raised, sorted, results]
Search(lines, query, limit, clockAt) ==
    LET scan == Scan(lines, 1, query, clockAt, <<>>)
        sorted == SortResults(scan.results)
    IN  [raised |-> scan.raised, sorted |-> sorted,
         results |-> SliceTo(sorted, limit)]

-----------------------------------------------------------------------------
(* The environment: the backing store, the preferences, the clock. *)

\* lines the external tracking agent (or anything else) left in the store;
\* at T0 the ages of the first three are 3600, 86400 and 604800 seconds
\* /a|10|1996400
LineA ==
    <<"/", "a", "|", "1", "0", "|", "1", "9", "9", "6", "4", "0", "0", "\n">>

\* /ab|3|1913600
LineAB ==
    <<"/", "a", "b", "|", "3", "|", "1", "9", "1", "3", "6", "0", "0", "\n">>

\* /P|2.5|1395200
LineP ==
    <<"/", "P", "|", "2", ".", "5", "|", "1", "3", "9", "5", "2", "0", "0", "\n">>

\* /b|1|2000100, a time in the future
LineF ==
    <<"/", "b", "|", "1", "|", "2", "0", "0", "0", "1", "0", "0", "\n">>

\* garbage, no separator
LineGarbage ==
    <<"g", "a", "r", "b", "a", "g", "e", "\n">>

\* /b|c|1|2, a path that holds the separator
LinePipe ==
    <<"/", "b", "|", "c", "|", "1", "|", "2", "\n">>

\* /b|x|5, a rank that is no number
LineX ==
    <<"/", "b", "|", "x", "|", "5", "\n">>

\* the lines the stores are made of, in the order they stand in the file
Catalogue == <<LineAB, LineA, LinePipe>>
SearchCatalogue ==
    <<LineAB, LineA, LineP, LineF, LineGarbage, LinePipe, LineX>>

\* the subsequences of s that keep at most n elements
RECURSIVE SubSeqsUpTo(_, _)
SubSeqsUpTo(s, n) ==
    IF Len(s) = 0 \/ n = 0 THEN {<<>>}
    ELSE LET rest == Tail(s)
         IN  SubSeqsUpTo(rest, n)
                 \cup {<<Head(s)>> \o t : t \in SubSeqsUpTo(rest, n - 1)}

\* the stores the model starts from: records with distinct paths and
\* malformed lines, in catalogue order
Stores == SubSeqsUpTo(Catalogue, MaxLines)
SearchStores == SubSeqsUpTo(SearchCatalogue, MaxSearchLines)

\* the queries typed; the empty one is the keyword alone
Queries == {<<>>, <<"A">>, <<".">>}

\* the preference values the launcher hands over, as text
ZFilePrefs == {"~/.z"}
MaxResultsPrefs == {<<"2">>, <<"-", "1">>, <<"x">>}
StoredMaxResultsPrefs == {<<"2">>, <<"-", "1">>}
FlagPrefs == {"true", "false"}
CommandPrefs == {"xdg-open"}

\* os.path.expanduser, and the one file that exists
ZPath == "/home/u/.z"
ExpandUser(p) == IF p = "~/.z" THEN ZPath ELSE p
FileExists(name) == name = ZPath

\* T0 is the time at which the ages of the catalogue's first lines fall on
\* the bucket boundaries; one tick is 1/Scale second
T0 == 2000000 * Scale
ClockEnd == T0 + MaxTicks

-----------------------------------------------------------------------------
(* Observations. *)

NoEntry == [path |-> <<>>, rank |-> 0, time |-> 0, frecency |-> 0]

NoObs ==
    [op |-> "none", raised |-> "", query |-> <<>>, read |-> <<>>,
     sorted |-> <<>>, returned |-> <<>>, limit |-> 0,
     before |-> <<>>, path |-> <<>>, rank |-> 0, time |-> 0,
     warned |-> FALSE, touched |-> FALSE, built_flag |-> FALSE]

FiIdle ==
    [active |-> FALSE, running |-> FALSE, todo |-> <<>>, buf |-> <<>>,
     path |-> <<>>, rank |-> 0, time |-> 0, line_replaced |-> FALSE,
     before |-> <<>>]

-----------------------------------------------------------------------------
(* ZSearchExtension.__init__, src/main.py 76-86. *)

Init ==
    /\ z_file = ""
    /\ max_results = 0
    /\ update_z_file = FALSE
    /\ command_on_select = ""
    /\ z_lines \in Stores
    /\ fi = FiIdle
    /\ rendered = <<>>
    /\ now = T0
    /\ rank_ups = 0
    /\ last = NoObs

-----------------------------------------------------------------------------
(* PreferencesLoadListener.on_event, src/main.py 120-126.  The handler     *)
(* assigns z_file before int() can raise.                                  *)

PreferencesLoad(zf, mr, fl, cmd) ==
    LET n == ParseInt(mr)
    IN  /\ z_file' = ExpandUser(zf)
        /\ IF n.ok
           THEN /\ max_results' = n.val
                /\ update_z_file' = (fl = "true")
                /\ command_on_select' = cmd
                /\ last' = NoObs
           ELSE /\ UNCHANGED <<max_results, update_z_file, command_on_select>>
                /\ last' = NoObs
        /\ UNCHANGED <<z_lines, fi, rendered, now, rank_ups>>

(* PreferencesChangeListener.on_event, src/main.py 132-141. *)

\* the launcher sends the PreferencesEvent first, when the extension starts
Loaded == z_file # ""

PreferencesChangeZFile(zf) ==
    /\ Loaded
    /\ z_file' = ExpandUser(zf)
    /\ last' = NoObs
    /\ UNCHANGED <<max_results, update_z_file, command_on_select,
                   z_lines, fi, rendered, now, rank_ups>>

PreferencesChangeMaxResults(mr) ==
    LET n == ParseInt(mr)
    IN  /\ Loaded
        /\ IF n.ok
           THEN /\ max_results' = n.val
                /\ last' = NoObs
           ELSE /\ UNCHANGED max_results
                /\ last' = NoObs
        /\ UNCHANGED <<z_file, update_z_file, command_on_select,
                       z_lines, fi, rendered, now, rank_ups>>

PreferencesChangeFlag(fl) ==
    /\ Loaded
    /\ update_z_file' = (fl = "true")
    /\ last' = NoObs
    /\ UNCHANGED <<z_file, max_results, command_on_select,
                   z_lines, fi, rendered, now, rank_ups>>

PreferencesChangeCommand(cmd) ==
    /\ Loaded
    /\ command_on_select' = cmd
    /\ last' = NoObs
    /\ UNCHANGED <<z_file, max_results, update_z_file,
                   z_lines, fi, rendered, now, rank_ups>>

-----------------------------------------------------------------------------
(* KeywordQueryEventListener.on_event, src/main.py 152-193. *)

HintItem ==
    [kind |-> "hint", data |-> NoEntry, custom |-> FALSE, cmd |-> "",
     built_flag |-> FALSE]

NoResultsItem ==
    [kind |-> "none", data |-> NoEntry, custom |-> FALSE, cmd |-> "",
     built_flag |-> FALSE]

\* the custom action attached whatever the flag says
AttachCustomActionAlways(flag) == TRUE

\* whether the entry gets the ExtensionCustomAction, src/main.py 183-184
AttachCustomAction(flag) == flag

\* one entry of the list: the script action, and the custom action that
\* carries the result dict when the flag is set.  built_flag is the flag as
\* it was read here (observation only).
EntryItem(result) ==
    [kind |-> "entry",
     data |-> [path |-> result.path, rank |-> result.rank,
               time |-> result.time, frecency |-> result.frecency],
     custom |-> AttachCustomAction(update_z_file),
     cmd |-> command_on_select, built_flag |-> update_z_file]

KeywordQueryEmpty ==
    /\ rendered' = <<HintItem>>
    /\ last' = NoObs
    /\ UNCHANGED <<z_file, max_results, update_z_file, command_on_select,
                   z_lines, fi, now, rank_ups>>

\* open(self.z_file) raises: the handler ends with the exception
KeywordQueryNoFile(query) ==
    /\ query # <<>>
    /\ ~FileExists(z_file)
    /\ last' = [NoObs EXCEPT !.op = "search", !.raised = "IOError",
                             !.query = query]
    /\ UNCHANGED <<z_file, max_results, update_z_file, command_on_select,
                   z_lines, fi, rendered, now, rank_ups>>

\* the clock may step once while the lines are scanned: the lines after
\* line k are scored one tick later
KeywordQuery(query, k) ==
    /\ query # <<>>
    /\ FileExists(z_file)
    /\ k \in 0..Len(z_lines)
    /\ k < Len(z_lines) => now < ClockEnd
    /\ LET clockAt == [i \in 1..Len(z_lines) |-> IF i <= k THEN now ELSE now + 1]
           res == Search(z_lines, query, max_results, clockAt)
       IN  /\ now' = IF k < Len(z_lines) THEN now + 1 ELSE now
           /\ IF res.raised
              THEN /\ UNCHANGED rendered
                   /\ last' = [NoObs EXCEPT !.op = "search",
                                  !.raised = "ValueError", !.query = query,
                                  !.read = z_lines, !.limit = max_results]
              ELSE /\ rendered' =
                          IF res.results = <<>> THEN <<NoResultsItem>>
                          ELSE [i \in 1..Len(res.results) |->
                                    EntryItem(res.results[i])]
                   /\ last' = [NoObs EXCEPT !.op = "search", !.query = query,
                                  !.read = z_lines, !.limit = max_results,
                                  !.sorted = res.sorted,
                                  !.returned = res.results]
    /\ UNCHANGED <<z_file, max_results, update_z_file, command_on_select,
                   z_lines, fi, rank_ups>>

-----------------------------------------------------------------------------
(* update_z_file, src/main.py 54-70, run by ItemEnterEventListener.        *)
(* fileinput.input(file, inplace=1) renames the file to a backup and       *)
(* opens a new, empty file under its name when the first line is asked     *)
(* for; the loop then writes line after line into the new file through a   *)
(* buffer; at the end of the input the new file is closed and the backup   *)
(* removed.  Other threads and processes read the file in between.         *)

LineSep == <<NL>>

\* the line written in place of the matching one
NewLine(path, rank, time) ==
    path \o <<SEP>> \o FormatFloat(rank) \o <<SEP>> \o FormatInt(IntOf(time))
         \o LineSep

\* how many pieces the line is split into for the three-name assignment
SplitForUpdate(line) == RSplit(line, SEP, 3)

\* the loop body: [raised, out, hit]; raised stands for the ValueError of
\* the assignment when the pieces are not three
RewriteLine(line, path, rank, time) ==
    LET parts == SplitForUpdate(line)
    IN  IF Len(parts) # 3 THEN [raised |-> TRUE, out |-> <<>>, hit |-> FALSE]
        ELSE IF parts[1] = path
             THEN [raised |-> FALSE, out |-> NewLine(path, rank, time),
                   hit |-> TRUE]
        ELSE [raised |-> FALSE, out |-> line, hit |-> FALSE]

\* fileinput after an exception left the loop: the module state still
\* holds the open files, the buffered output is not written
Wedged == [FiIdle EXCEPT !.active = TRUE, !.buf = fi.buf]

TouchObs(raised) ==
    [NoObs EXCEPT !.op = "touch", !.raised = raised, !.before = fi.before,
                  !.path = fi.path, !.rank = fi.rank, !.time = fi.time]

\* the rank the handler passes on, entry["rank"] + 1
NextRank(entry) == entry.rank + Scale

(* ItemEnterEventListener.on_event, src/main.py 225-230, up to the first   *)
(* line read.  The launcher hides its window (keep_app_open=False).        *)
ItemEnter(i) ==
    /\ i \in DOMAIN rendered
    /\ rendered[i].kind = "entry"
    /\ rendered[i].custom
    /\ rank_ups < MaxRankUps
    /\ LET entry == rendered[i].data
           obs == [NoObs EXCEPT !.op = "enter", !.path = entry.path,
                                !.rank = NextRank(entry), !.time = now,
                                !.before = z_lines,
                                !.built_flag = rendered[i].built_flag]
       IN  IF fi.active
           THEN \* input() already active
                /\ last' = [obs EXCEPT !.raised = "RuntimeError"]
                /\ UNCHANGED <<z_lines, fi, rank_ups>>
           ELSE IF ~FileExists(z_file)
           THEN \* os.rename fails
                /\ last' = [obs EXCEPT !.raised = "OSError"]
                /\ UNCHANGED <<z_lines, fi, rank_ups>>
           ELSE /\ fi' = [active |-> TRUE, running |-> TRUE,
                          todo |-> z_lines, buf |-> <<>>,
                          path |-> entry.path, rank |-> NextRank(entry),
                          time |-> now, line_replaced |-> FALSE,
                          before |-> z_lines]
                /\ z_lines' = <<>>
                /\ rank_ups' = rank_ups + 1
                /\ last' = [obs EXCEPT !.touched = TRUE]
    /\ rendered' = <<>>
    /\ UNCHANGED <<z_file, max_results, update_z_file, command_on_select, now>>

\* one turn of the loop; the buffer may or may not reach the disk
TouchLine(flush) ==
    /\ fi.running
    /\ fi.todo # <<>>
    /\ LET r == RewriteLine(Head(fi.todo), fi.path, fi.rank, fi.time)
           buf == Append(fi.buf, r.out)
       IN  IF r.raised
           THEN /\ fi' = Wedged
                /\ last' = TouchObs("ValueError")
                /\ UNCHANGED z_lines
           ELSE /\ fi' = [fi EXCEPT !.todo = Tail(fi.todo),
                              !.buf = IF flush THEN <<>> ELSE buf,
                              !.line_replaced = fi.line_replaced \/ r.hit]
                /\ z_lines' = IF flush THEN z_lines \o buf ELSE z_lines
                /\ last' = NoObs
    /\ UNCHANGED <<z_file, max_results, update_z_file, command_on_select,
                   rendered, now, rank_ups>>

\* writing fails (disk full, permission): the exception leaves the loop
TouchIOError ==
    /\ fi.running
    /\ fi' = Wedged
    /\ last' = TouchObs("OSError")
    /\ UNCHANGED <<z_file, max_results, update_z_file, command_on_select,
                   z_lines, rendered, now, rank_ups>>

\* end of input: the output is closed, the backup removed, the warning
\* logged when no line was replaced
TouchClose ==
    /\ fi.running
    /\ fi.todo = <<>>
    /\ z_lines' = z_lines \o fi.buf
    /\ fi' = FiIdle
    /\ last' = [TouchObs("") EXCEPT !.warned = ~fi.line_replaced]
    /\ UNCHANGED <<z_file, max_results, update_z_file, command_on_select,
                   rendered, now, rank_ups>>

(* An entry without the custom action, or the "no results" item: the       *)
(* launcher runs the script or hides, no event reaches the extension.      *)
SelectPlain(i) ==
    /\ i \in DOMAIN rendered
    /\ rendered[i].kind # "hint"
    /\ ~rendered[i].custom
    /\ rendered' = <<>>
    /\ last' = [NoObs EXCEPT !.op = "select",
                             !.built_flag = rendered[i].built_flag]
    /\ UNCHANGED <<z_file, max_results, update_z_file, command_on_select,
                   z_lines, fi, now, rank_ups>>

-----------------------------------------------------------------------------
(* The external tracking agent and the clock. *)

\* a number as the agent prints it
FormatNum(x) == IF x % Scale = 0 THEN DecStr(x \div Scale) ELSE FormatFloat(x)

\* the agent records a visit: rank + 1 and the time of the visit, written
\* with a rename, so in one step
AgentAdd(i) ==
    /\ ~fi.active
    /\ i \in DOMAIN z_lines
    /\ ParseLine(z_lines[i]).ok
    /\ rank_ups < MaxRankUps
    /\ LET p == ParseLine(z_lines[i])
       IN  z_lines' = [z_lines EXCEPT ![i] =
               p.path \o <<SEP>> \o FormatNum(p.rank + Scale) \o <<SEP>>
                      \o FormatInt(IntOf(now)) \o LineSep]
    /\ rank_ups' = rank_ups + 1
    /\ last' = NoObs
    /\ UNCHANGED <<z_file, max_results, update_z_file, command_on_select,
                   fi, rendered, now>>

\* the agent drops a record
AgentForget(i) ==
    /\ ~fi.active
    /\ i \in DOMAIN z_lines
    /\ z_lines' = SubSeq(z_lines, 1, i - 1) \o Drop(z_lines, i + 1)
    /\ last' = NoObs
    /\ UNCHANGED <<z_file, max_results, update_z_file, command_on_select,
                   fi, rendered, now, rank_ups>>

Tick ==
    /\ now < ClockEnd
    /\ now' = now + 1
    /\ last' = NoObs
    /\ UNCHANGED <<z_file, max_results, update_z_file, command_on_select,
                   z_lines, fi, rendered, rank_ups>>

-----------------------------------------------------------------------------

(* The extension alone: every handler, the steps of the rewrite, the clock. *)

Next ==
    \/ \E zf \in ZFilePrefs, mr \in StoredMaxResultsPrefs, fl \in FlagPrefs,
          cmd \in CommandPrefs : PreferencesLoad(zf, mr, fl, cmd)
    \/ \E zf \in ZFilePrefs : PreferencesChangeZFile(zf)
    \/ \E mr \in MaxResultsPrefs : PreferencesChangeMaxResults(mr)
    \/ \E fl \in FlagPrefs : PreferencesChangeFlag(fl)
    \/ \E cmd \in CommandPrefs : PreferencesChangeCommand(cmd)
    \/ KeywordQueryEmpty
    \/ \E q \in Queries : KeywordQueryNoFile(q)
    \/ \E q \in Queries : KeywordQuery(q, Len(z_lines))
    \/ \E i \in 1..MaxLines : ItemEnter(i)
    \/ \E flush \in BOOLEAN : TouchLine(flush)
    \/ TouchIOError
    \/ TouchClose
    \/ \E i \in 1..MaxLines : SelectPlain(i)
    \/ Tick

Spec == Init /\ [][Next]_vars

(* The extension next to the external tracking agent, preferences loaded   *)
(* and selection feedback switched on.                                     *)

InitAgent ==
    /\ z_file = ZPath
    /\ max_results \in {ParseInt(mr).val : mr \in StoredMaxResultsPrefs}
    /\ update_z_file = TRUE
    /\ command_on_select \in CommandPrefs
    /\ z_lines \in Stores
    /\ fi = FiIdle
    /\ rendered = <<>>
    /\ now = T0
    /\ rank_ups = 0
    /\ last = NoObs

NextAgent ==
    \/ \E q \in Queries : KeywordQuery(q, Len(z_lines))
    \/ \E i \in 1..MaxLines : ItemEnter(i)
    \/ \E flush \in BOOLEAN : TouchLine(flush)
    \/ TouchClose
    \/ \E i \in 1..MaxLines : AgentAdd(i)
    \/ \E i \in 1..MaxLines : AgentForget(i)
    \/ Tick

SpecAgent == InitAgent /\ [][NextAgent]_vars

(* search as a function of the store, the query, the limit and the clock:  *)
(* the inputs are drawn by the initial state, the clock may step while the *)
(* lines are scanned.                                                      *)

InitSearch ==
    /\ z_file = ZPath
    /\ max_results \in {ParseInt(mr).val : mr \in StoredMaxResultsPrefs}
    /\ update_z_file \in BOOLEAN
    /\ command_on_select \in CommandPrefs
    /\ z_lines \in SearchStores
    /\ fi = FiIdle
    /\ rendered = <<>>
    /\ now \in {T0 - 1, T0}
    /\ rank_ups = 0
    /\ last = NoObs

NextSearch ==
    \/ \E q \in Queries, k \in 0..MaxSearchLines : KeywordQuery(q, k)
    \/ KeywordQueryEmpty

SpecSearch == InitSearch /\ [][NextSearch]_vars

(* frecency as a function of the rank, the time of the last access and    *)
(* the clock: the action draws the arguments and calls it.                 *)

Ranks == {0, Scale, (5 * Scale) \div 2, 10 * Scale, 100 * Scale}

\* ages at T0, in ticks: inside every bucket and on both sides of every
\* boundary, and one in the future
Ages ==
    {-5 * Scale, 0, 1800 * Scale, Hour * Scale - 1, Hour * Scale,
     7200 * Scale, Day * Scale - 1, Day * Scale, 200000 * Scale,
     Week * Scale - 1, Week * Scale, 1000000 * Scale}

FrecencyCall(rank, last_time) ==
    /\ last' = [NoObs EXCEPT !.op = "frecency", !.rank = rank,
                   !.time = last_time,
                   !.returned = <<ResultOf([path |-> <<>>, rank |-> rank,
                                            time |-> last_time], now)>>]
    /\ UNCHANGED <<z_file, max_results, update_z_file, command_on_select,
                   z_lines, fi, rendered, now, rank_ups>>

InitFrecency ==
    /\ z_file = ""
    /\ max_results = 0
    /\ update_z_file = FALSE
    /\ command_on_select = ""
    /\ z_lines = <<>>
    /\ fi = FiIdle
    /\ rendered = <<>>
    /\ now = T0
    /\ rank_ups = 0
    /\ last = NoObs

NextFrecency ==
    \/ \E rank \in Ranks, age \in Ages : FrecencyCall(rank, T0 - age)
    \/ Tick

SpecFrecency == InitFrecency /\ [][NextFrecency]_vars

-----------------------------------------------------------------------------
(* The claims. *)

\* the path field of a stored line: what stands before the last two
\* separators
PathField(line) == RSplit(RStripNL(line), SEP, 2)[1]

\* the lines of a store whose path field is path
LinesOf(lines, path) == {i \in 1..Len(lines) : PathField(lines[i]) = path}

\* a touch has ended, with or without an exception
TouchEnded == last.op = "touch"

\* a search has read the file and ended, with or without an exception
SearchEnded == last.op = "search" /\ last.raised # "IOError"

\* C1: after touch(store, p, r, t), with no failure of the file system, on a
\* store in which exactly one line has the path p, the store has as many lines as before, the line of p reads
\* p|r|t at its old place and every other line is unchanged.
C1_TouchRewritesOneLine ==
    (/\ TouchEnded
     /\ last.raised # "OSError"
     /\ Cardinality(LinesOf(last.before, last.path)) = 1) =>
        /\ last.raised = ""
        /\ Len(z_lines) = Len(last.before)
        /\ \A i \in 1..Len(last.before) :
               i <= Len(z_lines) =>
                   IF PathField(last.before[i]) = last.path
                   THEN ParseLine(z_lines[i]) =
                            [ok |-> TRUE, path |-> last.path,
                             rank |-> last.rank, time |-> last.time]
                   ELSE z_lines[i] = last.before[i]

\* C2: the sequence search returns is ordered by frecency, descending
\* (strictly where the values differ), and the frecency of every entry is
\* frecency(rank, lastAccess) of a line that was read, at the time it was
\* scored.
C2_SearchSortedDescending ==
    (SearchEnded /\ last.raised = "") =>
        /\ \A i, j \in 1..Len(last.returned) :
               i < j =>
                   /\ last.returned[i].frecency >= last.returned[j].frecency
                   /\ last.returned[i].frecency # last.returned[j].frecency
                          => last.returned[i].frecency
                                 > last.returned[j].frecency
        /\ \A i \in 1..Len(last.returned) :
               LET e == last.returned[i]
               IN  /\ e.frecency = frecency(e.rank, e.time, e.at)
                   /\ \E n \in 1..Len(last.read) :
                          ParseLine(last.read[n]) =
                              [ok |-> TRUE, path |-> e.path,
                               rank |-> e.rank, time |-> e.time]

\* C2 witness: two records came back in the order opposite to the file's
C2_Witness ==
    /\ SearchEnded
    /\ last.read = <<LineAB, LineA>>
    /\ Len(last.returned) = 2
    /\ last.returned[1].path = <<"/", "a">>
    /\ last.returned[2].path = <<"/", "a", "b">>
    /\ last.returned[1].frecency > last.returned[2].frecency

\* the product rank * m for a multiplier given in quarters, in the unit of
\* a frecency
TimesQuarters(rank, quarters) == rank * quarters

\* C3: frecency is rank * 4 for an age under 3600 s (negative ages too),
\* rank * 2 under 86400 s, rank * 0.5 under 604800 s, rank * 0.25 from
\* there on; 3600, 86400 and 604800 themselves fall in the older bucket.
C3_FrecencyBuckets ==
    last.op \in {"frecency", "search"} =>
        \A i \in 1..Len(last.returned) :
            LET e == last.returned[i]
                delta == e.at - e.time
            IN  e.frecency =
                    IF delta < 3600 * Scale THEN TimesQuarters(e.rank, 16)
                    ELSE IF delta < 86400 * Scale THEN TimesQuarters(e.rank, 8)
                    ELSE IF delta < 604800 * Scale THEN TimesQuarters(e.rank, 2)
                    ELSE TimesQuarters(e.rank, 1)

\* C3 witness: an age of exactly 3600 s scored with the multiplier 2
C3_Witness ==
    /\ last.op = "frecency"
    /\ last.rank = 10 * Scale
    /\ last.returned[1].at - last.returned[1].time = 3600 * Scale
    /\ last.returned[1].frecency = 20 * 4 * Scale

\* the smaller of two numbers
Min(a, b) == IF a < b THEN a ELSE b

\* C4: search returns the first min(maxResults, matches) entries of the
\* sorted matches when maxResults > 0 and nothing when maxResults <= 0; never
\* more than maxResults entries, never more than matched.
C4_SearchTruncates ==
    (SearchEnded /\ last.raised = "") =>
        /\ last.returned =
               IF last.limit > 0
               THEN SubSeq(last.sorted, 1, Min(last.limit, Len(last.sorted)))
               ELSE <<>>
        /\ Len(last.returned) <= Len(last.sorted)
        /\ last.limit >= 0 => Len(last.returned) <= last.limit

\* C5: a search that runs while a touch rewrites the store reads the whole
\* content from before the touch or the whole content from after it.
C5_SearchSeesWholeStore ==
    (SearchEnded /\ fi.running) =>
        \/ last.read = fi.before
        \/ /\ Len(last.read) = Len(fi.before)
           /\ \A i \in 1..Len(fi.before) :
                  PathField(fi.before[i]) # fi.path
                      => last.read[i] = fi.before[i]

\* C6: touch with a path that no line of the store has ends without an
\* exception, warns, and leaves the store as it was.
C6_TouchAbsentPath ==
    (TouchEnded /\ LinesOf(last.before, last.path) = {}) =>
        /\ last.raised = ""
        /\ last.warned
        /\ z_lines = last.before

\* the lines search can parse
WellFormed(lines) == SelectSeq(lines, LAMBDA l : ParseLine(l).ok)

\* the paths of the well-formed lines the query matches
MatchedPaths(lines, query) ==
    {ParseLine(lines[i]).path :
         i \in {n \in 1..Len(lines) : /\ PatternSearch(query, lines[n])
                                      /\ ParseLine(lines[n]).ok}}

\* C7: search skips a malformed line: it ends without an exception and its
\* matches are those of the well-formed lines.
C7_SearchSkipsMalformed ==
    SearchEnded =>
        /\ last.raised = ""
        /\ {last.sorted[i].path : i \in 1..Len(last.sorted)}
               = MatchedPaths(last.read, last.query)

\* C8: a touch that fails leaves the store with exactly the content it had.
C8_FailedTouchKeepsStore ==
    (TouchEnded /\ last.raised # "") => z_lines = last.before

\* C9: a selection never lowers the stored rank of a record.
C9_RankNeverDecreases ==
    (TouchEnded /\ last.raised = "") =>
        \A i \in LinesOf(last.before, last.path) :
            ParseLine(last.before[i]).ok
                => last.rank >= ParseLine(last.before[i]).rank

\* C10 as stated: a selection modifies the store only if the flag is set when
\* the entry is selected.
C10_FlagAtSelection ==
    (last.op = "enter" /\ last.touched) => update_z_file

\* C10 as amended: a selection modifies the store only if the flag was set
\* when the result list holding the selected entry was built.
C10_FlagAtBuild ==
    (last.op \in {"enter", "select"} /\ last.touched) => last.built_flag

\* C10 witness: the flag was set when the list was built and cleared before
\* the selection, which rewrites the store all the same
C10_Witness ==
    /\ last.op = "enter"
    /\ last.touched
    /\ last.built_flag
    /\ ~update_z_file

====
